---- MODULE Spec2Model ----
(***************************************************************************)
(* Model of src/src/dashboard.py: the Streamlit script that loads the      *)
(* order dataset once (load_data), and on every run of main() filters it   *)
(* by date range and category, computes the KPIs, the monthly series, the  *)
(* category ranking and the automated insight sentences.                   *)
(*                                                                         *)
(* Conventions of the model                                                *)
(*  - a DataFrame is a record [columns, rows]: the set of its column       *)
(*    names and the sequence of its rows;                                  *)
(*  - a timestamp is a number of seconds since 1 January, 00:00:00, of a   *)
(*    non-leap year; a date is a number of days since that 1 January;      *)
(*  - order_total is a non-negative whole amount; a quotient is kept as an *)
(*    exact fraction <<numerator, denominator>> in lowest terms;           *)
(*  - a category name is a positive number, ordered as the names are;      *)
(*    NaN is the missing value of pandas (NaN, NaT, np.nan).               *)
(***************************************************************************)
EXTENDS Integers, Sequences, FiniteSets, TLC

(***************************************************************************)
(* Bounds of the model.                                                    *)
(***************************************************************************)
MaxRows == 3
MaxOrderId == 2
MaxTotal == 2
NumCats == 2

(***************************************************************************)
(* Constants of the program.                                               *)
(***************************************************************************)
NaN == -1
SecondsPerDay == 86400
TopN == 10
DefaultCats == 6
Last30Days == 29
Prev30Days == 30
Percent == 100

\* The sentinel of load_data and main for a missing category; as a name it
\* sorts after the names 1..NumCats of the model.
Unknown == NumCats + 1

CategoryNames == 1..NumCats

(***************************************************************************)
(* Time: pandas Timestamp, Timedelta, .date(), .dt.to_period('M').         *)
(***************************************************************************)
Timedelta(days, seconds) == days * SecondsPerDay + seconds

At(day, second) == Timedelta(day, second)

date(ts) == ts \div SecondsPerDay

to_datetime(d) == d * SecondsPerDay

\* First days of the months January..May of a non-leap year.
MonthStarts == {0, 31, 59, 90, 120}

Max(S) == CHOOSE x \in S : \A y \in S : y <= x

Min(S) == CHOOSE x \in S : \A y \in S : x <= y

\* df['order_purchase_timestamp'].dt.to_period('M').dt.to_timestamp()
order_month(ts) == to_datetime(Max({m \in MonthStarts : m <= date(ts)}))

(***************************************************************************)
(* Arithmetic helpers.                                                     *)
(***************************************************************************)
Abs(x) == IF x < 0 THEN -x ELSE x

RECURSIVE Gcd(_, _)
Gcd(a, b) == IF b = 0 THEN a ELSE Gcd(b, a % b)

\* Python's true division a / b (b # 0), kept exact and in lowest terms with a
\* positive denominator.
Div(a, b) ==
    LET g == Gcd(Abs(a), Abs(b))
        s == IF b < 0 THEN -1 ELSE 1
    IN  <<(s * a) \div g, (s * b) \div g>>

\* The number 0 the code uses where it does not divide.
Zero == <<0, 1>>

\* f"{abs(q):.1f}": the tenths of |q|, rounded to nearest, ties to even.
Fmt1(q) ==
    LET n == Abs(q[1]) * 10
        d == q[2]
        lo == n \div d
        r == n % d
    IN  IF 2 * r < d THEN lo
        ELSE IF 2 * r > d THEN lo + 1
        ELSE IF lo % 2 = 0 THEN lo ELSE lo + 1

\* format_currency: "BRL " and the amount with two decimals, kept in cents.
format_currency(x) == <<"BRL", x * 100>>

(***************************************************************************)
(* Sequences and Series.                                                   *)
(***************************************************************************)
Range(s) == {s[i] : i \in DOMAIN s}

RECURSIVE SortedSeq(_)
\* sorted(...) of a set of numbers, ascending.
SortedSeq(S) == IF S = {} THEN <<>> ELSE <<Min(S)>> \o SortedSeq(S \ {Min(S)})

RECURSIVE SumOf(_, _)
\* Series.sum() of column col over the rows.
SumOf(rows, col) ==
    IF rows = <<>> THEN 0 ELSE Head(rows)[col] + SumOf(Tail(rows), col)

\* Series.unique() as a set (the code sorts it or counts it).
unique(rows, col) == {rows[i][col] : i \in DOMAIN rows}

\* Series.nunique(): the number of distinct values, NaN not counted.
nunique(rows, col) == Cardinality(unique(rows, col) \ {NaN})

\* Series.max() of the timestamps; NaN (NaT) on no rows.
max_timestamp(rows) == IF rows = <<>> THEN NaN ELSE Max(unique(rows, "ts"))

\* df.groupby(col)[val].sum(): one entry per key, keys ascending; groupby
\* drops the rows whose key is NaN (dropna=True is the default).
groupby_sum(rows, col) ==
    LET keys == SortedSeq(unique(rows, col) \ {NaN})
    IN  [i \in DOMAIN keys |->
            <<keys[i], SumOf(SelectSeq(rows, LAMBDA r : r[col] = keys[i]), "total")>>]

\* groupby(col)['order_id'] counting the rows of a group (count(), not nunique()).
groupby_count(rows, col) ==
    LET keys == SortedSeq(unique(rows, col) \ {NaN})
    IN  [i \in DOMAIN keys |->
            <<keys[i], Len(SelectSeq(rows, LAMBDA r : r[col] = keys[i]))>>]

\* df.groupby(col)['order_id'].nunique()
groupby_nunique(rows, col) ==
    LET keys == SortedSeq(unique(rows, col) \ {NaN})
    IN  [i \in DOMAIN keys |->
            <<keys[i], nunique(SelectSeq(rows, LAMBDA r : r[col] = keys[i]), "order_id")>>]

(***************************************************************************)
(* The dataset file data/processed/ecommerce_clean.csv: bounded families   *)
(* of files.  The order of the rows of a file has no effect on any result  *)
(* of the program except the order of equal keys in sort_values, which is  *)
(* chosen at each run; the rows are kept in one canonical order.  A file   *)
(* has at least one row: main takes the min and the max of the timestamps  *)
(* (lines 108-109) before anything else.                                   *)
(***************************************************************************)
CsvRow(O, C, T, K, V) ==
    [order_id : O, customer_id : C, ts : T, cat : K, total : V]

RowKey(r) == <<r.ts, r.order_id, r.customer_id, r.cat, r.total>>

RECURSIVE LexLeq(_, _)
LexLeq(a, b) ==
    IF a = <<>> THEN TRUE
    ELSE IF Head(a) # Head(b) THEN Head(a) < Head(b)
    ELSE LexLeq(Tail(a), Tail(b))

RowsOf(R, n) ==
    {s \in [1..n -> R] : \A i \in 1..(n - 1) : LexLeq(RowKey(s[i]), RowKey(s[i + 1]))}

Tables(R) == UNION {RowsOf(R, n) : n \in 1..MaxRows}

OrderIds == 1..MaxOrderId

Totals == 0..MaxTotal

\* One day, one category: orders and amounts vary.
KpiRows == CsvRow(OrderIds, {1}, {At(30, 0)}, {1}, Totals)

\* One day, one category: orders and customers vary.
CustomerRows == CsvRow(OrderIds, OrderIds, {At(30, 0)}, {1}, {1})

\* 31 January, 1 February, 1 March, 1 April: amounts vary.
MonthRows == CsvRow({1}, {1}, {At(30, 0), At(31, 0), At(59, 0), At(90, 0)}, {1}, Totals)

\* Orders whose rows fall in several months.
OrderRows == CsvRow(OrderIds, {1}, {At(30, 0), At(31, 0), At(59, 0)}, {1}, {1})

\* The first and the last second of a day and the first of the next; categories,
\* some missing.
FilterRows ==
    CsvRow({1}, {1}, {At(30, 0), At(30, SecondsPerDay - 1), At(31, 0)},
           CategoryNames \cup {NaN}, {1})

\* Categories, some missing, with amounts.
CategoryRows == CsvRow({1}, {1}, {At(30, 0)}, CategoryNames \cup {NaN}, Totals)

\* Timestamps 29, 30, 59 and 60 days before the latest one.
WindowRows ==
    CsvRow(OrderIds, {1}, {At(29, 0), At(30, 0), At(59, 0), At(60, 0), At(89, 0)}, {1}, {1})

\* One row for each of TopN + 1 categories, all of amount 1 but none, the first,
\* the last, or the first and the last of them, which have amount 2.
ManyCategoryTables ==
    {[k \in 1..(TopN + 1) |->
        [order_id |-> k, customer_id |-> 1, ts |-> At(30, 0), cat |-> k,
         total |-> IF k \in {i, j} THEN 2 ELSE 1]] :
     i \in {0, 1, TopN + 1}, j \in {0, TopN + 1}}

CsvFiles ==
    {[has_customer |-> TRUE, has_category |-> TRUE, rows |-> t] :
        t \in Tables(KpiRows) \cup Tables(CustomerRows) \cup Tables(MonthRows)
              \cup Tables(OrderRows) \cup Tables(FilterRows)
              \cup Tables(CategoryRows) \cup Tables(WindowRows)
              \cup ManyCategoryTables}
    \cup
    \* no customer_id column
    {[has_customer |-> FALSE, has_category |-> TRUE, rows |-> t] :
        t \in Tables(CsvRow({1}, {NaN}, {At(30, 0), At(31, 0)}, CategoryNames, {1}))}
    \cup
    \* no product_category_name column
    {[has_customer |-> TRUE, has_category |-> FALSE, rows |-> t] :
        t \in Tables(CsvRow({1}, {1}, {At(30, 0), At(31, 0)}, {NaN}, Totals))}

(***************************************************************************)
(* State.                                                                  *)
(***************************************************************************)
VARIABLES
    csv,            \* the dataset file
    df,             \* the cached result of load_data()
    pc,             \* "start", then "loaded", then "rendered" when main() has run
    start_date,     \* main: the dates of st.sidebar.date_input
    end_date,
    selected_cats,  \* main: the choice of st.sidebar.multiselect
    df_filtered,    \* main: df[mask]
    kpis,           \* main: compute_kpis(df_filtered)
    no_data,        \* main: "No data for selected filters." was written
    rev_time,       \* main: the monthly revenue series
    orders_time,    \* main: the monthly orders series
    cat_rev,        \* main: the top categories
    insights        \* main: generate_insights(df, df_filtered)

vars == <<csv, df, pc, start_date, end_date, selected_cats, df_filtered,
          kpis, no_data, rev_time, orders_time, cat_rev, insights>>

EmptyFrame == [columns |-> {}, rows |-> <<>>]

NoKpis == [total_revenue |-> 0, orders |-> 0, aov |-> Zero, customers |-> 0]

Init ==
    /\ csv \in CsvFiles
    /\ df = EmptyFrame
    /\ pc = "start"
    /\ start_date = 0
    /\ end_date = 0
    /\ selected_cats = {}
    /\ df_filtered = EmptyFrame
    /\ kpis = NoKpis
    /\ no_data = FALSE
    /\ rev_time = <<>>
    /\ orders_time = <<>>
    /\ cat_rev = <<>>
    /\ insights = <<>>

(***************************************************************************)
(* load_data                                                               *)
(***************************************************************************)
load_data(file) ==
    [columns |->
        {"order_id", "order_purchase_timestamp", "order_total", "order_month",
         "order_date", "product_category_name"}
            \cup (IF file.has_customer THEN {"customer_id"} ELSE {}),
     rows |->
        [i \in DOMAIN file.rows |->
            [order_id |-> file.rows[i].order_id,
             customer_id |-> file.rows[i].customer_id,
             ts |-> file.rows[i].ts,
             total |-> file.rows[i].total,
             order_month |-> order_month(file.rows[i].ts),
             order_date |-> date(file.rows[i].ts),
             \* df.get('product_category_name', ['unknown'] * len(df)): the
             \* column as it is when the file has it, missing values included
             cat |-> IF file.has_category THEN file.rows[i].cat ELSE Unknown]]]

LoadData ==
    /\ pc = "start"
    /\ pc' = "loaded"
    /\ df' = load_data(csv)
    /\ UNCHANGED <<csv, start_date, end_date, selected_cats, df_filtered, kpis,
                   no_data, rev_time, orders_time, cat_rev, insights>>

(***************************************************************************)
(* compute_kpis                                                            *)
(***************************************************************************)
\* compute_kpis counting the rows, not the distinct order_id values.
compute_kpis_rows(frame) ==
    LET total_rev == SumOf(frame.rows, "total")
        orders == Len(frame.rows)
        aov == IF orders > 0 THEN Div(total_rev, orders) ELSE Zero
        customers == IF "customer_id" \in frame.columns
                     THEN nunique(frame.rows, "customer_id")
                     ELSE NaN
    IN  [total_revenue |-> total_rev, orders |-> orders, aov |-> aov,
         customers |-> customers]

compute_kpis(frame) ==
    LET total_rev == SumOf(frame.rows, "total")
        orders == nunique(frame.rows, "order_id")
        aov == IF orders > 0 THEN Div(total_rev, orders) ELSE Zero
        customers == IF "customer_id" \in frame.columns
                     THEN nunique(frame.rows, "customer_id")
                     ELSE NaN
    IN  [total_revenue |-> total_rev, orders |-> orders, aov |-> aov,
         customers |-> customers]

(***************************************************************************)
(* sort_values(ascending=False).  The default kind is quicksort, which is  *)
(* not stable: entries with equal values come out in an order the library  *)
(* does not fix.  The order among equal values is any rotation of the      *)
(* order of the input (the keys ascending), forward or backward; one order *)
(* is chosen for a run of main().                                          *)
(***************************************************************************)
TieOrders(n) ==
    {[i \in 1..n |-> (i + p) % n] : p \in 0..(n - 1)}
        \cup {[i \in 1..n |-> (n - i + p) % n] : p \in 0..(n - 1)}

\* The order of sort_values(ascending=True): the smaller value first.
Before_ascending(s, rank, i, j) ==
    \/ s[i][2] < s[j][2]
    \/ s[i][2] = s[j][2] /\ rank[i] < rank[j]

\* Entry i comes before entry j: the greater value first, equal values by rank.
Before(s, rank, i, j) ==
    \/ s[i][2] > s[j][2]
    \/ s[i][2] = s[j][2] /\ rank[i] < rank[j]

RECURSIVE Insert(_, _, _, _)
Insert(idx, i, s, rank) ==
    IF idx = <<>> THEN <<i>>
    ELSE IF Before(s, rank, i, Head(idx)) THEN <<i>> \o idx
    ELSE <<Head(idx)>> \o Insert(Tail(idx), i, s, rank)

RECURSIVE SortIndex(_, _, _)
SortIndex(k, s, rank) ==
    IF k = 0 THEN <<>> ELSE Insert(SortIndex(k - 1, s, rank), k, s, rank)

SortDescending(s, rank) ==
    LET idx == SortIndex(Len(s), s, rank) IN [p \in DOMAIN s |-> s[idx[p]]]

sort_values(s) ==
    IF s = <<>> THEN {<<>>}
    ELSE {SortDescending(s, rank) : rank \in TieOrders(Len(s))}

\* DataFrame.head(n)
head(s, n) == SubSeq(s, 1, IF Len(s) < n THEN Len(s) ELSE n)

\* Series.get(key, default) of a groupby result
get(series, key, default) ==
    IF \E i \in DOMAIN series : series[i][1] = key
    THEN series[CHOOSE i \in DOMAIN series : series[i][1] = key][2]
    ELSE default

(***************************************************************************)
(* generate_insights.  sorted_cat_rev is the outcome of the sort_values of *)
(* line 79 in this run.                                                    *)
(***************************************************************************)
NoArgs == [last |-> NaN, prev |-> NaN, last_rev |-> NaN, prev_rev |-> NaN,
           top_cat |-> NaN, top_val |-> NaN, last_30_orders |-> NaN]

Sentence(kind, variant, sign, pct, args) ==
    [kind |-> kind, variant |-> variant, sign |-> sign, pct |-> pct, args |-> args]

\* month_insight wording a change of 0 as an increase (pct >= 0).
month_insight_nonnegative(frame) ==
    LET months == SortedSeq(unique(frame.rows, "order_month"))
    IN  IF Len(months) >= 2
        THEN LET last == months[Len(months)]
                 prev == months[Len(months) - 1]
                 rev_by_month == groupby_sum(frame.rows, "order_month")
                 last_rev == get(rev_by_month, last, 0)
                 prev_rev == get(rev_by_month, prev, 0)
                 args == [NoArgs EXCEPT !.last = last, !.prev = prev,
                              !.last_rev = format_currency(last_rev),
                              !.prev_rev = format_currency(prev_rev)]
             IN  IF prev_rev = 0
                 THEN <<Sentence("month", "alone", "none", NaN,
                                 [args EXCEPT !.prev = NaN, !.prev_rev = NaN])>>
                 ELSE LET pct == Div((last_rev - prev_rev) * Percent, prev_rev)
                          sign == IF pct[1] >= 0 THEN "increased" ELSE "decreased"
                      IN  <<Sentence("month", "pct", sign, Fmt1(pct), args)>>
        ELSE <<>>

\* lines 58-76: the month-over-month sentence, or none
month_insight(frame) ==
    LET months == SortedSeq(unique(frame.rows, "order_month"))
    IN  IF Len(months) >= 2
        THEN LET last == months[Len(months)]
                 prev == months[Len(months) - 1]
                 rev_by_month == groupby_sum(frame.rows, "order_month")
                 last_rev == get(rev_by_month, last, 0)
                 prev_rev == get(rev_by_month, prev, 0)
                 args == [NoArgs EXCEPT !.last = last, !.prev = prev,
                              !.last_rev = format_currency(last_rev),
                              !.prev_rev = format_currency(prev_rev)]
             IN  IF prev_rev = 0
                 THEN <<Sentence("month", "alone", "none", NaN,
                                 [args EXCEPT !.prev = NaN, !.prev_rev = NaN])>>
                 ELSE LET pct == Div((last_rev - prev_rev) * Percent, prev_rev)
                          sign == IF pct[1] > 0 THEN "increased" ELSE "decreased"
                      IN  <<Sentence("month", "pct", sign, Fmt1(pct), args)>>
        ELSE <<>>

\* lines 78-83: the top category sentence, or none
category_insight(sorted_cat_rev) ==
    IF sorted_cat_rev # <<>>
    THEN <<Sentence("category", "alone", "none", NaN,
                    [NoArgs EXCEPT !.top_cat = sorted_cat_rev[1][1],
                         !.top_val = format_currency(sorted_cat_rev[1][2])])>>
    ELSE <<>>

\* trend_insight with the prior window ending a day earlier, 30 days before the
\* latest timestamp.
trend_insight_short_window(frame) ==
    LET latest_date == max_timestamp(frame.rows)
    IN  IF latest_date # NaN
        THEN LET last_30_start == latest_date - Timedelta(Last30Days, 0)
                 prev_30_start == last_30_start - Timedelta(Prev30Days, 0)
                 last_30 == SelectSeq(frame.rows, LAMBDA r : r.ts >= last_30_start)
                 prev_30 == SelectSeq(frame.rows,
                                LAMBDA r : /\ r.ts >= prev_30_start
                                           /\ r.ts < last_30_start - Timedelta(1, 0))
                 last_30_orders == nunique(last_30, "order_id")
                 prev_30_orders == nunique(prev_30, "order_id")
             IN  IF prev_30_orders > 0
                 THEN LET pct_orders ==
                              Div((last_30_orders - prev_30_orders) * Percent,
                                  prev_30_orders)
                          sign == IF pct_orders[1] > 0 THEN "increased"
                                  ELSE "decreased"
                      IN  <<Sentence("trend", "pct", sign, Fmt1(pct_orders), NoArgs)>>
                 ELSE <<Sentence("trend", "alone", "none", NaN,
                                 [NoArgs EXCEPT !.last_30_orders = last_30_orders])>>
        ELSE <<>>

\* trend_insight without the test of line 87: a sentence on an empty frame too.
trend_insight_unguarded(frame) ==
    IF frame.rows = <<>>
    THEN <<Sentence("trend", "alone", "none", NaN,
                    [NoArgs EXCEPT !.last_30_orders = 0])>>
    ELSE LET latest_date == max_timestamp(frame.rows)
             last_30_start == latest_date - Timedelta(Last30Days, 0)
             last_30 == SelectSeq(frame.rows, LAMBDA r : r.ts >= last_30_start)
         IN  <<Sentence("trend", "alone", "none", NaN,
                    [NoArgs EXCEPT !.last_30_orders = nunique(last_30, "order_id")])>>

\* lines 85-98: the sentence on the orders of the last 30 days, or none
trend_insight(frame) ==
    LET latest_date == max_timestamp(frame.rows)
    IN  IF latest_date # NaN
        THEN LET last_30_start == latest_date - Timedelta(Last30Days, 0)
                 prev_30_start == last_30_start - Timedelta(Prev30Days, 0)
                 last_30 == SelectSeq(frame.rows, LAMBDA r : r.ts >= last_30_start)
                 prev_30 == SelectSeq(frame.rows,
                                LAMBDA r : r.ts >= prev_30_start /\ r.ts < last_30_start)
                 last_30_orders == nunique(last_30, "order_id")
                 prev_30_orders == nunique(prev_30, "order_id")
             IN  IF prev_30_orders > 0
                 THEN LET pct_orders ==
                              Div((last_30_orders - prev_30_orders) * Percent,
                                  prev_30_orders)
                          sign == IF pct_orders[1] > 0 THEN "increased"
                                  ELSE "decreased"
                      IN  <<Sentence("trend", "pct", sign, Fmt1(pct_orders), NoArgs)>>
                 ELSE <<Sentence("trend", "alone", "none", NaN,
                                 [NoArgs EXCEPT !.last_30_orders = last_30_orders])>>
        ELSE <<>>

\* generate_insights putting the top category first.
generate_insights_swapped(frame, frame_filtered, sorted_cat_rev) ==
    category_insight(sorted_cat_rev)
        \o month_insight(frame_filtered)
        \o trend_insight(frame_filtered)

generate_insights(frame, frame_filtered, sorted_cat_rev) ==
    month_insight(frame_filtered)
        \o category_insight(sorted_cat_rev)
        \o trend_insight(frame_filtered)

(***************************************************************************)
(* main: the sidebar and the filters (lines 105-126).                      *)
(***************************************************************************)
fillna(c) == IF c = NaN THEN Unknown ELSE c

categories_sorted(frame) ==
    SortedSeq({fillna(frame.rows[i].cat) : i \in DOMAIN frame.rows})

\* The choices of the multiselect the model takes: the empty one, the single
\* ones, the default one (the first DefaultCats options) and the full one.
Selections(options) ==
    {{}} \cup {{c} : c \in Range(options)}
         \cup {Range(head(options, DefaultCats)), Range(options)}

\* lines 108-109
min_date(frame) == date(Min(unique(frame.rows, "ts")))

max_date(frame) == date(max_timestamp(frame.rows))

\* The dates the model takes from the date picker: the dates of the rows, which
\* lie from min_date to max_date, the range it allows, in either order.
DateChoices(frame) ==
    {d \in unique(frame.rows, "order_date") : min_date(frame) <= d /\ d <= max_date(frame)}

apply_filters(frame, sd, ed, sel) ==
    LET start_dt == to_datetime(sd)
        end_dt == to_datetime(ed) + Timedelta(1, 0) - Timedelta(0, 1)
        mask(r) == /\ r.ts >= start_dt
                   /\ r.ts <= end_dt
                   /\ (sel # {} => r.cat \in sel)
    IN  [columns |-> frame.columns, rows |-> SelectSeq(frame.rows, mask)]

(***************************************************************************)
(* main: one run of the script with the widgets' values sd, ed and sel.    *)
(* The script keeps nothing from one run to the next but the cached frame  *)
(* of load_data (it uses no session state): every run starts from the      *)
(* loaded frame, and a behaviour holds one run.                            *)
(***************************************************************************)
Main(sd, ed, sel, filtered, sorted_cat_rev) ==
    /\ start_date' = sd
    /\ end_date' = ed
    /\ selected_cats' = sel
    /\ df_filtered' = filtered
    /\ kpis' = compute_kpis(filtered)
    /\ cat_rev' = head(sorted_cat_rev, TopN)
    /\ insights' = generate_insights(df, filtered, sorted_cat_rev)
    /\ pc' = "rendered"
    /\ UNCHANGED <<csv, df>>

\* line 143: the filtered frame is empty
RunNoData(sd, ed, sel) ==
    /\ pc = "loaded"
    /\ LET filtered == apply_filters(df, sd, ed, sel)
       IN  /\ filtered.rows = <<>>
           /\ no_data' = TRUE
           /\ rev_time' = <<>>
           /\ orders_time' = <<>>
           /\ \E sorted_cat_rev \in
                  sort_values(groupby_sum(filtered.rows, "cat")) :
                  Main(sd, ed, sel, filtered, sorted_cat_rev)

\* line 145: the filtered frame has rows
RunWithData(sd, ed, sel) ==
    /\ pc = "loaded"
    /\ LET filtered == apply_filters(df, sd, ed, sel)
       IN  /\ filtered.rows # <<>>
           /\ no_data' = FALSE
           /\ rev_time' = groupby_sum(filtered.rows, "order_month")
           /\ orders_time' = groupby_nunique(filtered.rows, "order_month")
           /\ \E sorted_cat_rev \in
                  sort_values(groupby_sum(filtered.rows, "cat")) :
                  Main(sd, ed, sel, filtered, sorted_cat_rev)

Next ==
    \/ LoadData
    \/ /\ pc = "loaded"
       /\ \E sd \in DateChoices(df), ed \in DateChoices(df),
             sel \in Selections(categories_sorted(df)) : RunNoData(sd, ed, sel)
    \/ /\ pc = "loaded"
       /\ \E sd \in DateChoices(df), ed \in DateChoices(df),
             sel \in Selections(categories_sorted(df)) : RunWithData(sd, ed, sel)

Spec == Init /\ [][Next]_vars

(***************************************************************************)
(* Properties.                                                             *)
(***************************************************************************)
Rendered == pc = "rendered"

Subset == df_filtered.rows

\* The rows of the filtered subset, by position.
SubsetRows == DOMAIN df_filtered.rows

OrdersOf(I) == {Subset[i].order_id : i \in I}

MonthsOf(I) == {Subset[i].order_month : i \in I}

RECURSIVE SumValues(_)
SumValues(series) ==
    IF series = <<>> THEN 0 ELSE Head(series)[2] + SumValues(Tail(series))

\* C1: compute_kpis returns an order count equal to the number of distinct
\* order_id values of the subset (not its number of rows), and an average order
\* value that is total_revenue divided by that count when the count is > 0 and
\* exactly 0 when it is 0.
C1_KpiOrdersAndAov ==
    Rendered =>
        /\ kpis.orders = Cardinality(OrdersOf(SubsetRows))
        /\ kpis.orders > 0 =>
              /\ kpis.aov[2] > 0
              /\ kpis.aov[1] * kpis.orders = kpis.total_revenue * kpis.aov[2]
        /\ kpis.orders = 0 => kpis.aov = Zero

\* C1 witness: an order of two rows beside another order, and an average that
\* is no whole number.
C1_Witness ==
    /\ Rendered
    /\ kpis.orders = 2
    /\ Len(Subset) = 3
    /\ kpis.aov[2] = 2

\* C9: on an empty filtered subset compute_kpis returns total_revenue 0, order
\* count 0, average order value 0 and unique customers 0, or NaN (not
\* available) when the dataset has no customer_id column, and
\* generate_insights returns the empty list.
C9_EmptySubsetDefaults ==
    (Rendered /\ Subset = <<>>) =>
        /\ kpis.total_revenue = 0
        /\ kpis.orders = 0
        /\ kpis.aov = Zero
        /\ kpis.customers = IF csv.has_customer THEN 0 ELSE NaN
        /\ insights = <<>>

\* C9 witness: a run on a dataset without customer_id column whose filters, with
\* the dates in order, leave no row.
C9_Witness ==
    /\ Rendered
    /\ Subset = <<>>
    /\ start_date <= end_date
    /\ ~csv.has_customer
    /\ no_data

\* C10: the per-month distinct order counts sum to at least the KPI order
\* count, with equality exactly when no order_id has rows in more than one
\* month of the subset.
C10_MonthlyOrdersSum ==
    Rendered =>
        LET spans == \E i \in SubsetRows, j \in SubsetRows :
                        /\ Subset[i].order_id = Subset[j].order_id
                        /\ Subset[i].order_month # Subset[j].order_month
        IN  /\ SumValues(orders_time) >= kpis.orders
            /\ (SumValues(orders_time) = kpis.orders) <=> ~spans

\* C10 witness: an order with rows in two months, counted in each of them.
C10_Witness ==
    /\ Rendered
    /\ kpis.orders = 1
    /\ SumValues(orders_time) = 2

OfKind(kind) == SelectSeq(insights, LAMBDA x : x.kind = kind)

\* The summed order_total of the rows of the subset in month m.
RevenueOfMonth(m) == SumOf(SelectSeq(Subset, LAMBDA r : r.order_month = m), "total")

\* t is |num / den| to one decimal: the nearest tenth (den > 0).
NearestTenth(t, num, den) == 2 * Abs(t * den - 10 * Abs(num)) <= den

\* C4: a month-over-month sentence is produced iff the subset has at least 2
\* distinct order_month values; it compares the greatest month with the second
\* greatest; it reports last_rev alone exactly when prev_rev = 0, and otherwise
\* reports pct = (last_rev - prev_rev) / prev_rev * 100, worded "increased"
\* exactly when pct > 0 and "decreased" when pct <= 0.
C4_MonthOverMonth ==
    Rendered =>
        LET M == MonthsOf(SubsetRows)
            ms == OfKind("month")
        IN  /\ Len(ms) = IF Cardinality(M) >= 2 THEN 1 ELSE 0
            /\ Cardinality(M) >= 2 =>
                  LET last == Max(M)
                      prev == Max(M \ {last})
                      last_rev == RevenueOfMonth(last)
                      prev_rev == RevenueOfMonth(prev)
                      x == ms[1]
                  IN  /\ x.args.last = last
                      /\ x.args.last_rev = format_currency(last_rev)
                      /\ (x.variant = "alone") <=> (prev_rev = 0)
                      /\ (x.variant = "pct") <=> (prev_rev # 0)
                      /\ prev_rev = 0 => x.sign = "none" /\ x.pct = NaN
                      /\ prev_rev # 0 =>
                            /\ x.args.prev = prev
                            /\ x.args.prev_rev = format_currency(prev_rev)
                            /\ (x.sign = "increased") <=>
                                   ((last_rev - prev_rev) * Percent * prev_rev > 0)
                            /\ (x.sign = "decreased") <=>
                                   ((last_rev - prev_rev) * Percent * prev_rev <= 0)
                            /\ NearestTenth(x.pct, (last_rev - prev_rev) * Percent,
                                            prev_rev)

\* C4 witness: January, February and April present; April is compared with
\* February, of equal revenue, and the change of 0.0% reads "decreased".
C4_Witness ==
    /\ Rendered
    /\ MonthsOf(SubsetRows) = {to_datetime(0), to_datetime(31), to_datetime(90)}
    /\ \E i \in DOMAIN insights :
          /\ insights[i].kind = "month"
          /\ insights[i].args.last = to_datetime(90)
          /\ insights[i].args.prev = to_datetime(31)
          /\ insights[i].sign = "decreased"
          /\ insights[i].pct = 0

\* The latest purchase timestamp of the subset.
Latest == Max({Subset[i].ts : i \in SubsetRows})

\* The number of distinct order_id with a timestamp in [lo, hi).
OrdersBetween(lo, hi) ==
    Cardinality(OrdersOf({i \in SubsetRows : Subset[i].ts >= lo /\ Subset[i].ts < hi}))

\* The 30-day sentence is the one for these counts of the two windows.
TrendSentenceFor(prior, current) ==
    LET ts == OfKind("trend")
    IN  /\ Len(ts) = 1
        /\ (ts[1].variant = "pct") <=> (prior > 0)
        /\ prior > 0 =>
              /\ (ts[1].sign = "increased") <=> (current > prior)
              /\ (ts[1].sign = "decreased") <=> (current <= prior)
              /\ NearestTenth(ts[1].pct, (current - prior) * Percent, prior)
        /\ prior = 0 =>
              /\ ts[1].variant = "alone"
              /\ ts[1].args.last_30_orders = current

\* C5 as stated: the prior window is [latest - 59 days, latest - 30 days).
C5_AsClaimed ==
    (Rendered /\ Subset # <<>>) =>
        TrendSentenceFor(
            OrdersBetween(Latest - Timedelta(59, 0), Latest - Timedelta(30, 0)),
            OrdersBetween(Latest - Timedelta(29, 0), Latest + 1))

\* C5 as amended: the current count is the number of distinct order_id in
\* [latest - 29 days, latest], the prior count the number of distinct order_id
\* in [latest - 59 days, latest - 29 days): a row at or after latest - 29 days
\* is never counted in the prior window, and the sentence carries a percentage
\* exactly when the prior count is > 0, else the current count alone.
C5_TrailingWindows ==
    (Rendered /\ Subset # <<>>) =>
        TrendSentenceFor(
            OrdersBetween(Latest - Timedelta(59, 0), Latest - Timedelta(29, 0)),
            OrdersBetween(Latest - Timedelta(29, 0), Latest + 1))

\* C5 witness: the only row before the last 30 days is exactly 30 days before
\* the latest one, and it is the prior window of a sentence with a percentage.
C5_Witness ==
    /\ Rendered
    /\ Subset # <<>>
    /\ \E i \in SubsetRows : Subset[i].ts = Latest - Timedelta(30, 0)
    /\ \A i \in SubsetRows :
          Subset[i].ts >= Latest - Timedelta(30, 0)
    /\ \E i \in DOMAIN insights :
          insights[i].kind = "trend" /\ insights[i].variant = "pct"

KindRank(kind) ==
    CASE kind = "month" -> 1
      [] kind = "category" -> 2
      [] kind = "trend" -> 3
      [] OTHER -> 0

\* C7: the list of generate_insights holds at most one sentence of each kind,
\* in the order month-over-month, top category, 30-day trend, and nothing
\* else; the month sentence is there exactly when the subset has two months,
\* the top category one exactly when the category ranking is non-empty, the
\* 30-day one exactly when the subset has a latest timestamp.
C7_InsightOrder ==
    Rendered =>
        /\ \A i \in DOMAIN insights : KindRank(insights[i].kind) \in 1..3
        /\ \A i \in DOMAIN insights, j \in DOMAIN insights :
              i < j => KindRank(insights[i].kind) < KindRank(insights[j].kind)
        /\ (OfKind("month") # <<>>) <=> (Cardinality(MonthsOf(SubsetRows)) >= 2)
        /\ (OfKind("category") # <<>>) <=> (cat_rev # <<>>)
        /\ (OfKind("trend") # <<>>) <=> (Subset # <<>>)

\* C7 witness: the three sentences, in order.
C7_Witness ==
    /\ Rendered
    /\ Len(insights) = 3
    /\ insights[1].kind = "month"
    /\ insights[2].kind = "category"
    /\ insights[3].kind = "trend"

\* C2: with start_date <= end_date the filtered subset is exactly the rows of
\* the dataset whose purchase timestamp lies from start_date to the end of
\* end_date and whose category, "unknown" for a missing one, is among the
\* selected categories; with no category selected, exactly the rows within the
\* date bounds.
C2_FilterExact ==
    (Rendered /\ start_date <= end_date) =>
        df_filtered.rows =
            SelectSeq(df.rows,
                LAMBDA r : /\ start_date <= date(r.ts)
                           /\ date(r.ts) <= end_date
                           /\ \/ selected_cats = {}
                              \/ fillna(r.cat) \in selected_cats)

\* C3: a run whose start_date is after its end_date is rejected: it yields no
\* filtered subset, not even an empty one.
C3_InvalidRangeRejected == ~(Rendered /\ start_date > end_date)

\* The summed order_total of the rows of the subset of category c.
RevenueOfCategory(c) == SumOf(SelectSeq(Subset, LAMBDA r : r.cat = c), "total")

\* C6: the category ranking is sorted by summed revenue descending, categories
\* of equal revenue by name ascending, and has at most TopN entries; the top
\* category sentence names, among the categories of greatest revenue, the one
\* of smallest name.
C6_RankingOrder ==
    Rendered =>
        /\ Len(cat_rev) <= TopN
        /\ \A i \in DOMAIN cat_rev : cat_rev[i][2] = RevenueOfCategory(cat_rev[i][1])
        /\ \A i \in DOMAIN cat_rev, j \in DOMAIN cat_rev :
              i < j =>
                 \/ cat_rev[i][2] > cat_rev[j][2]
                 \/ cat_rev[i][2] = cat_rev[j][2] /\ cat_rev[i][1] < cat_rev[j][1]
        /\ \A i \in DOMAIN insights :
              insights[i].kind = "category" =>
                 LET cats == {Subset[k].cat : k \in SubsetRows} \ {NaN}
                     best == {c \in cats :
                                \A d \in cats : RevenueOfCategory(d) <= RevenueOfCategory(c)}
                 IN  insights[i].args.top_cat = Min(best)

\* C6 as amended: the category ranking is sorted by summed revenue descending
\* and has at most TopN entries; the order of categories of equal revenue is
\* not fixed, and the top category sentence names one of the categories of
\* greatest revenue.
C6_RankingDescending ==
    Rendered =>
        /\ Len(cat_rev) <= TopN
        /\ \A i \in DOMAIN cat_rev : cat_rev[i][2] = RevenueOfCategory(cat_rev[i][1])
        /\ \A i \in DOMAIN cat_rev, j \in DOMAIN cat_rev :
              i < j => cat_rev[i][2] >= cat_rev[j][2]
        /\ \A i \in DOMAIN insights :
              insights[i].kind = "category" =>
                 LET cats == {Subset[k].cat : k \in SubsetRows} \ {NaN}
                     best == {c \in cats :
                                \A d \in cats : RevenueOfCategory(d) <= RevenueOfCategory(c)}
                 IN  insights[i].args.top_cat \in best

\* C6 witness: a subset of TopN + 1 categories ranked down to TopN entries,
\* whose first and last categories tie for the greatest revenue, the last one
\* being named as the top category.
C6_Witness ==
    /\ Rendered
    /\ Cardinality({Subset[k].cat : k \in SubsetRows}) = TopN + 1
    /\ Len(cat_rev) = TopN
    /\ RevenueOfCategory(1) = RevenueOfCategory(TopN + 1)
    /\ cat_rev[1][1] = TopN + 1
    /\ cat_rev[1][2] > cat_rev[TopN][2]
    /\ \E i \in DOMAIN insights :
          insights[i].kind = "category" /\ insights[i].args.top_cat = TopN + 1

\* C8: the month buckets and the category buckets are partitions of the
\* subset: the per-month revenues and the per-category revenues each sum to
\* the KPI total_revenue, a row of missing category included.
C8_BucketsPartition ==
    Rendered =>
        /\ ~no_data => SumValues(rev_time) = kpis.total_revenue
        /\ SumValues(groupby_sum(Subset, "cat")) = kpis.total_revenue

====
